---- MODULE Spec2Model ----
(***************************************************************************)
(* Model of sam_assistant: the Document value object (document.py) and the *)
(* DocumentRepository (document_repository.py) that keeps one JSON file    *)
(* per document plus an index file, index.json, in a storage directory.    *)
(*                                                                         *)
(* A JSON object is modelled as [fields, ents]: `fields` holds the seven   *)
(* document keys (a sequence of length 0 or 1: absent or present) and      *)
(* `ents` the remaining keys in insertion order, each an index entry.  A   *)
(* document body is an object with fields and no entries, a clean index an *)
(* object with entries and no fields.                                      *)
(***************************************************************************)
EXTENDS Integers, Sequences, FiniteSets, TLC

\* now: the clock; doc: the Document the caller holds; index, storage: the
\* _index and storage_path of the repository instance; other: the _index of
\* a second instance on the same directory; fs: the files of the directory;
\* last: the call that has just returned
VARIABLES now, doc, index, fs, last, storage, other

vars == <<now, doc, index, fs, last, storage, other>>

(***************************************************************************)
(* Bounds and input domains.                                               *)
(***************************************************************************)
MaxTime == 1
MaxTags == 2

Times == 0..MaxTime
Ids == {"a", "index"}
\* a string is a sequence of characters; the two contents differ in letter
\* case and in order
Chars == {"a", "A", "b", "B"}
Text1 == <<"A", "b">>
Text2 == <<"b", "a">>
Contents == {Text1, Text2}
\* the queries of search_content
Queries == {<<"a">>, <<"B", "A">>, <<"a", "b">>}
Types == {"text", "json"}
Tags == {"t1", "t2"}
MetaKeys == {"k"}
\* a metadata value: a string, a tuple (json writes it as a list), or an
\* object json cannot encode
MetaVals == {"str", "tuple", "object"}

SeqsUpTo(S, n) == UNION {[1..k -> S] : k \in 0..n}
TagLists == SeqsUpTo(Tags, MaxTags)
\* a metadata dictionary is a set of <<key, value>> pairs, one pair per key

Contains(s, x) == \E i \in 1..Len(s) : s[i] = x
Append1(s, x) == s \o <<x>>
\* list.remove(x): drops the first occurrence
RemoveFirst(s, x) ==
  LET i == CHOOSE j \in 1..Len(s) : s[j] = x /\ \A k \in 1..(j-1) : s[k] # x
  IN  SubSeq(s, 1, i-1) \o SubSeq(s, i+1, Len(s))

(***************************************************************************)
(* datetime <-> ISO-8601.  A datetime t is 2*seconds + (1 if the           *)
(* microsecond part is nonzero); isoformat() prints the microseconds only  *)
(* when they are nonzero and fromisoformat() reads both shapes.            *)
(***************************************************************************)
isoformat(t) == IF t % 2 = 0 THEN <<t \div 2>> ELSE <<t \div 2, t % 2>>
fromisoformat(s) == IF Len(s) = 1 THEN 2 * s[1] ELSE 2 * s[1] + s[2]

(***************************************************************************)
(* Document (document.py)                                                  *)
(***************************************************************************)
\* Document.__init__: created_at is a sequence, <<>> for "not given"
Document(doc_id, content, doc_type, metadata, tags, created_at, clock) ==
  LET c == IF created_at # <<>> THEN created_at[1] ELSE clock
  IN  [doc_id |-> doc_id, content |-> content, doc_type |-> doc_type,
       metadata |-> metadata, tags |-> tags,
       created_at |-> c, updated_at |-> c]

update_content(d, content, clock) ==
  [d EXCEPT !.content = content, !.updated_at = clock]

\* add_tag without its membership test
add_tag_always(d, tag, clock) ==
  [d EXCEPT !.tags = Append1(d.tags, tag), !.updated_at = clock]

add_tag(d, tag, clock) ==
  IF ~Contains(d.tags, tag)
  THEN [d EXCEPT !.tags = Append1(d.tags, tag), !.updated_at = clock]
  ELSE d

\* remove_tag that drops every occurrence of the tag
remove_tag_all(d, tag, clock) ==
  IF Contains(d.tags, tag)
  THEN [d EXCEPT !.tags = SelectSeq(d.tags, LAMBDA x : x # tag),
                 !.updated_at = clock]
  ELSE d

remove_tag(d, tag, clock) ==
  IF Contains(d.tags, tag)
  THEN [d EXCEPT !.tags = RemoveFirst(d.tags, tag), !.updated_at = clock]
  ELSE d

update_metadata(d, key, value, clock) ==
  [d EXCEPT !.metadata = {p \in d.metadata : p[1] # key} \cup {<<key, value>>},
            !.updated_at = clock]

\* to_dict: every key present; optional keys are sequences of length 0 or 1
to_dict(d) ==
  [doc_id |-> d.doc_id, content |-> d.content, doc_type |-> <<d.doc_type>>,
   metadata |-> <<d.metadata>>, tags |-> <<d.tags>>,
   created_at |-> isoformat(d.created_at),
   updated_at |-> <<isoformat(d.updated_at)>>]

\* from_dict without lines 84-86: updated_at is left as the constructor set it
from_dict_created_only(data) ==
  Document(data.doc_id, data.content,
           IF data.doc_type # <<>> THEN data.doc_type[1] ELSE "text",
           IF data.metadata # <<>> THEN data.metadata[1] ELSE {},
           IF data.tags # <<>> THEN data.tags[1] ELSE <<>>,
           <<fromisoformat(data.created_at)>>, 0)

\* from_dict: defaults for doc_type, metadata, tags; updated_at overrides
\* the constructor's updated_at = created_at only when the key is there
from_dict(data) ==
  LET d0 == Document(data.doc_id, data.content,
                     IF data.doc_type # <<>> THEN data.doc_type[1] ELSE "text",
                     IF data.metadata # <<>> THEN data.metadata[1] ELSE {},
                     IF data.tags # <<>> THEN data.tags[1] ELSE <<>>,
                     <<fromisoformat(data.created_at)>>, 0)
  IN  IF data.updated_at # <<>>
      THEN [d0 EXCEPT !.updated_at = fromisoformat(data.updated_at[1])]
      ELSE d0

(***************************************************************************)
(* json: dumps turns a tuple into a list and raises TypeError on a value   *)
(* it cannot encode; loads returns what dumps wrote.                       *)
(***************************************************************************)
JsonEncodable(metadata) == \A p \in metadata : p[2] # "object"
JsonValue(v) == IF v = "tuple" THEN "list" ELSE v
JsonMeta(metadata) == {<<p[1], JsonValue(p[2])>> : p \in metadata}
\* json.dumps(to_dict(d)) followed by json.loads, when dumps does not raise
JsonDict(data) ==
  [data EXCEPT !.metadata = IF data.metadata # <<>>
                            THEN <<JsonMeta(data.metadata[1])>> ELSE <<>>]

to_json_raises(d) == ~JsonEncodable(d.metadata)
to_json(d) == JsonDict(to_dict(d))
from_json(text) == from_dict(text)

(***************************************************************************)
(* Files.  A file is absent, holds text that is not valid JSON (empty or   *)
(* cut short: what open(..., 'w') followed by a failed write leaves), or   *)
(* holds a JSON object.                                                    *)
(***************************************************************************)
EmptyObj == [fields |-> <<>>, ents |-> <<>>]
Absent == [kind |-> "absent", obj |-> EmptyObj]
Partial == [kind |-> "partial", obj |-> EmptyObj]
JsonFile(o) == [kind |-> "json", obj |-> o]

\* DocumentRepository.__init__: index_file = storage_path / "index.json"
IndexFile == "index.json"
\* _get_document_path
get_document_path(doc_id) == doc_id \o ".json"
\* the doc_id a second instance saves under
OtherId == "b"
FileNames == {get_document_path(id) : id \in Ids \cup {OtherId}}
               \cup {IndexFile}
\* the names the storage directory goes by, and str(storage_path / name)
Dirs == {"store", "moved"}
FullPath(dir, name) == dir \o "/" \o name

exists(files, path) == files[path].kind # "absent"

(***************************************************************************)
(* The index, a dict doc_id -> entry in insertion order.  An entry made by *)
(* save_document holds the Document's own tags list, not a copy: `alias`   *)
(* marks an entry whose tags are the list of the caller's live Document.   *)
(***************************************************************************)
FieldNames == <<"doc_id", "content", "doc_type", "metadata", "tags",
                "created_at", "updated_at">>

Pos(idx, id) == CHOOSE i \in 1..Len(idx.ents) : idx.ents[i].id = id
\* doc_id in self._index
HasKey(idx, id) == \E i \in 1..Len(idx.ents) : idx.ents[i].id = id
GetItem(idx, id) == idx.ents[Pos(idx, id)]
\* self._index[doc_id] = entry: in place for a known key, appended otherwise
SetItem(idx, e) ==
  IF HasKey(idx, e.id)
  THEN [idx EXCEPT !.ents[Pos(idx, e.id)] = e]
  ELSE [idx EXCEPT !.ents = Append1(idx.ents, e)]
\* del self._index[doc_id]
DelItem(idx, id) ==
  LET i == Pos(idx, id)
  IN  [idx EXCEPT !.ents = SubSeq(idx.ents, 1, i-1)
                            \o SubSeq(idx.ents, i+1, Len(idx.ents))]
\* list(self._index.keys())
Keys(idx) ==
  (IF idx.fields # <<>> THEN FieldNames ELSE <<>>)
    \o [i \in 1..Len(idx.ents) |-> idx.ents[i].id]

\* the tags an entry shows when read, `live` being the caller's Document
EntryTags(e, live) == IF e.alias THEN live[1].tags ELSE e.tags
\* the index as json.dump writes it and as a reader sees it
Dump(idx, live) ==
  [idx EXCEPT !.ents = [i \in 1..Len(idx.ents) |->
      [idx.ents[i] EXCEPT !.tags = EntryTags(idx.ents[i], live),
                          !.alias = FALSE]]]
\* the caller's Document object goes away: the entries keep its list
Freeze(idx, live) == Dump(idx, live)

(***************************************************************************)
(* DocumentRepository (document_repository.py).  Every operation is given  *)
(* the I/O step `f` that fails in this call ("none": no step fails) and    *)
(* returns the state it leaves with the fault that actually happened.  A   *)
(* fault of open() belongs to the path: when index.json cannot be opened   *)
(* for writing, it cannot be opened as the document file of id "index"     *)
(* either.                                                                 *)
(***************************************************************************)
SaveFaults == {"none", "open_doc", "write_doc", "open_index", "write_index"}
DeleteFaults == {"none", "unlink", "open_index", "write_index"}

\* a _save_index that keeps the entries index.json holds for other ids
save_index_merging(idx, files, live, f) ==
  IF f = "open_index"
  THEN [ok |-> FALSE, fs |-> files, fault |-> f]
  ELSE IF f = "write_index"
  THEN [ok |-> FALSE, fs |-> [files EXCEPT ![IndexFile] = Partial], fault |-> f]
  ELSE LET old == IF files[IndexFile].kind = "json"
                  THEN files[IndexFile].obj.ents ELSE <<>>
           kept == SelectSeq(old, LAMBDA e : ~HasKey(idx, e.id))
           new == Dump(idx, live)
       IN  [ok |-> TRUE, fault |-> "none",
            fs |-> [files EXCEPT ![IndexFile] =
                      JsonFile([new EXCEPT !.ents = kept \o new.ents])]]

\* _save_index: open(index_file, 'w') truncates, json.dump writes
save_index(idx, files, live, f) ==
  IF f = "open_index"
  THEN [ok |-> FALSE, fs |-> files, fault |-> f]
  ELSE IF f = "write_index"
  THEN [ok |-> FALSE, fs |-> [files EXCEPT ![IndexFile] = Partial], fault |-> f]
  ELSE [ok |-> TRUE, fault |-> "none",
        fs |-> [files EXCEPT ![IndexFile] = JsonFile(Dump(idx, live))]]

\* save_document, lines 55-57: open(doc_path, 'w') then f.write(to_json())
write_document_file(files, d, f) ==
  LET path == get_document_path(d.doc_id)
  IN  IF f = "open_doc" \/ (f = "open_index" /\ path = IndexFile)
      THEN [ok |-> FALSE, fs |-> files, fault |-> "open_doc"]
      ELSE IF to_json_raises(d)
      THEN [ok |-> FALSE, fs |-> [files EXCEPT ![path] = Partial],
            fault |-> "to_json"]
      ELSE IF f = "write_doc"
      THEN [ok |-> FALSE, fs |-> [files EXCEPT ![path] = Partial], fault |-> f]
      ELSE [ok |-> TRUE, fault |-> "none",
            fs |-> [files EXCEPT ![path] =
                      JsonFile([fields |-> <<to_json(d)>>, ents |-> <<>>])]]

\* an index entry that records the file name without the directory
index_entry_bare(d, dir) ==
  [id |-> d.doc_id, doc_type |-> d.doc_type, tags |-> <<>>, alias |-> TRUE,
   created_at |-> isoformat(d.created_at),
   updated_at |-> isoformat(d.updated_at),
   file_path |-> get_document_path(d.doc_id)]

\* save_document, lines 60-66: file_path is str(doc_path)
index_entry(d, dir) ==
  [id |-> d.doc_id, doc_type |-> d.doc_type, tags |-> <<>>, alias |-> TRUE,
   created_at |-> isoformat(d.created_at),
   updated_at |-> isoformat(d.updated_at),
   file_path |-> FullPath(dir, get_document_path(d.doc_id))]

\* save_document without its try/except: what a file step raises escapes
save_document_uncaught(idx, files, d, dir, f) ==
  LET w == write_document_file(files, d, f)
  IN  IF ~w.ok
      THEN [ret |-> FALSE, raised |-> TRUE, index |-> idx, fs |-> w.fs,
            fault |-> w.fault]
      ELSE LET idx1 == SetItem(idx, index_entry(d, dir))
               s == save_index(idx1, w.fs, <<d>>, f)
           IN  [ret |-> s.ok, raised |-> ~s.ok, index |-> idx1, fs |-> s.fs,
                fault |-> s.fault]

\* save_document: `except Exception` turns a failed step into False
save_document(idx, files, d, dir, f) ==
  LET w == write_document_file(files, d, f)
  IN  IF ~w.ok
      THEN [ret |-> FALSE, raised |-> FALSE, index |-> idx, fs |-> w.fs,
            fault |-> w.fault]
      ELSE LET idx1 == SetItem(idx, index_entry(d, dir))
               s == save_index(idx1, w.fs, <<d>>, f)
           IN  [ret |-> s.ok, raised |-> FALSE, index |-> idx1, fs |-> s.fs,
                fault |-> s.fault]

\* get_document, lines 87-92, the body of the try: `got` is a sequence,
\* <<>> for None; `exc` names the exception the body raises
read_document(files, doc_id) ==
  LET path == get_document_path(doc_id)
  IN  IF ~exists(files, path) THEN [got |-> <<>>, exc |-> "none"]
      ELSE IF files[path].kind = "partial"
      THEN [got |-> <<>>, exc |-> "JSONDecodeError"]
      ELSE IF files[path].obj.fields = <<>>
      THEN [got |-> <<>>, exc |-> "KeyError"]
      ELSE [got |-> <<from_json(files[path].obj.fields[1])>>, exc |-> "none"]

\* get_document without its except clause: what the body raises escapes
get_document_uncaught(idx, files, doc_id) ==
  IF ~HasKey(idx, doc_id)
  THEN [got |-> <<>>, raised |-> FALSE, fault |-> "none"]
  ELSE LET r == read_document(files, doc_id)
       IN  [got |-> r.got, raised |-> r.exc # "none", fault |-> r.exc]

\* get_document: `except Exception` turns whatever the body raises into None
get_document(idx, files, doc_id) ==
  IF ~HasKey(idx, doc_id)
  THEN [got |-> <<>>, raised |-> FALSE, fault |-> "none"]
  ELSE LET r == read_document(files, doc_id)
       IN  [got |-> r.got, raised |-> FALSE, fault |-> r.exc]

\* delete_document that treats a missing document file as a failure
delete_document_strict(idx, files, live, doc_id, f) ==
  LET path == get_document_path(doc_id)
  IN  IF ~HasKey(idx, doc_id) \/ ~exists(files, path)
      THEN [ret |-> FALSE, raised |-> FALSE, index |-> idx, fs |-> files, fault |-> "none"]
      ELSE IF f = "unlink"
      THEN [ret |-> FALSE, raised |-> FALSE, index |-> idx, fs |-> files, fault |-> f]
      ELSE LET fs1 == [files EXCEPT ![path] = Absent]
               idx1 == DelItem(idx, doc_id)
               s == save_index(idx1, fs1, live, f)
           IN  [ret |-> s.ok, raised |-> FALSE, index |-> idx1, fs |-> s.fs,
                fault |-> s.fault]

delete_document(idx, files, live, doc_id, f) ==
  LET path == get_document_path(doc_id)
  IN  IF ~HasKey(idx, doc_id)
      THEN [ret |-> FALSE, raised |-> FALSE, index |-> idx, fs |-> files, fault |-> "none"]
      ELSE IF exists(files, path) /\ f = "unlink"
      THEN [ret |-> FALSE, raised |-> FALSE, index |-> idx, fs |-> files, fault |-> f]
      ELSE LET fs1 == [files EXCEPT ![path] = Absent]
               idx1 == DelItem(idx, doc_id)
               s == save_index(idx1, fs1, live,
                               IF f = "unlink" THEN "none" ELSE f)
           IN  [ret |-> s.ok, raised |-> FALSE, index |-> idx1, fs |-> s.fs,
                fault |-> s.fault]

\* _load_index: a sequence holding the loaded index, <<>> when json.load raises
load_index(files) ==
  IF exists(files, IndexFile)
  THEN IF files[IndexFile].kind = "partial" THEN <<>>
       ELSE <<files[IndexFile].obj>>
  ELSE <<EmptyObj>>

\* list_documents, __len__, __contains__
list_documents(idx) == Keys(idx)
len(idx) == Len(Keys(idx))
contains(idx, id) == Contains(Keys(idx), id)

IdsOf(es) == [i \in 1..Len(es) |-> es[i].id]

\* search_by_tag that looks at the first tag of an entry only
search_by_tag_first(idx, live, tag) ==
  IF idx.fields # <<>>
  THEN [ids |-> <<>>, raised |-> TRUE, fault |-> "AttributeError"]
  ELSE [ids |-> IdsOf(SelectSeq(idx.ents,
                  LAMBDA e : /\ EntryTags(e, live) # <<>>
                             /\ EntryTags(e, live)[1] = tag)),
        raised |-> FALSE, fault |-> "none"]

\* search_by_tag: `info.get` raises AttributeError on a value of the index
\* that is not a dict
search_by_tag(idx, live, tag) ==
  IF idx.fields # <<>>
  THEN [ids |-> <<>>, raised |-> TRUE, fault |-> "AttributeError"]
  ELSE [ids |-> IdsOf(SelectSeq(idx.ents,
                  LAMBDA e : Contains(EntryTags(e, live), tag))),
        raised |-> FALSE, fault |-> "none"]

\* search_by_type that returns the documents of every other type
search_by_type_inverted(idx, doc_type) ==
  IF idx.fields # <<>>
  THEN [ids |-> <<>>, raised |-> TRUE, fault |-> "AttributeError"]
  ELSE [ids |-> IdsOf(SelectSeq(idx.ents, LAMBDA e : e.doc_type # doc_type)),
        raised |-> FALSE, fault |-> "none"]

search_by_type(idx, doc_type) ==
  IF idx.fields # <<>>
  THEN [ids |-> <<>>, raised |-> TRUE, fault |-> "AttributeError"]
  ELSE [ids |-> IdsOf(SelectSeq(idx.ents, LAMBDA e : e.doc_type = doc_type)),
        raised |-> FALSE, fault |-> "none"]

\* str.lower and the `in` of two strings
lower_char(c) == IF c = "A" THEN "a" ELSE IF c = "B" THEN "b" ELSE c
lower(str) == [i \in 1..Len(str) |-> lower_char(str[i])]
IsSubstring(q, str) ==
  \E i \in 0..(Len(str) - Len(q)) : SubSeq(str, i + 1, i + Len(q)) = q

\* search_content that compares without lower()
search_content_exact(idx, files, query) ==
  SelectSeq(Keys(idx),
            LAMBDA id : LET r == get_document(idx, files, id)
                        IN  /\ r.got # <<>>
                            /\ IsSubstring(query, r.got[1].content))

\* search_content: every key of the index is loaded with get_document
search_content(idx, files, query) ==
  SelectSeq(Keys(idx),
            LAMBDA id : LET r == get_document(idx, files, id)
                        IN  /\ r.got # <<>>
                            /\ IsSubstring(lower(query),
                                           lower(r.got[1].content)))

\* get_documents_by_date_range with both bounds excluded
get_documents_by_date_range_open(idx, start_date, end_date) ==
  IF idx.fields # <<>>
  THEN [ids |-> <<>>, raised |-> TRUE, fault |-> "TypeError"]
  ELSE [ids |-> IdsOf(SelectSeq(idx.ents,
                  LAMBDA e : /\ start_date < fromisoformat(e.created_at)
                             /\ fromisoformat(e.created_at) < end_date)),
        raised |-> FALSE, fault |-> "none"]

\* get_documents_by_date_range: info["created_at"] raises TypeError on a
\* value of the index that is not a dict
get_documents_by_date_range(idx, start_date, end_date) ==
  IF idx.fields # <<>>
  THEN [ids |-> <<>>, raised |-> TRUE, fault |-> "TypeError"]
  ELSE [ids |-> IdsOf(SelectSeq(idx.ents,
                  LAMBDA e : /\ start_date <= fromisoformat(e.created_at)
                             /\ fromisoformat(e.created_at) <= end_date)),
        raised |-> FALSE, fault |-> "none"]

\* sorted(): the tags in lexicographic order
TagOrder == <<"t1", "t2">>
sorted(S) == SelectSeq(TagOrder, LAMBDA t : t \in S)
TagSet(tags) == {tags[i] : i \in 1..Len(tags)}

\* get_repository_stats that enters each type with a count of one
get_repository_stats_flat(idx, live) ==
  IF idx.fields # <<>>
  THEN [stats |-> <<>>, raised |-> TRUE, fault |-> "AttributeError"]
  ELSE LET es == idx.ents
           types == {es[i].doc_type : i \in 1..Len(es)}
           all == UNION {TagSet(EntryTags(es[i], live)) : i \in 1..Len(es)}
       IN  [stats |-> <<[total_documents |-> len(idx),
                         document_types |-> [t \in types |-> 1],
                         unique_tags |-> Cardinality(all),
                         all_tags |-> sorted(all)]>>,
            raised |-> FALSE, fault |-> "none"]

\* get_repository_stats: the per-type counts in a dict, the tags in a set
get_repository_stats(idx, live) ==
  IF idx.fields # <<>>
  THEN [stats |-> <<>>, raised |-> TRUE, fault |-> "AttributeError"]
  ELSE LET es == idx.ents
           types == {es[i].doc_type : i \in 1..Len(es)}
           all == UNION {TagSet(EntryTags(es[i], live)) : i \in 1..Len(es)}
       IN  [stats |-> <<[total_documents |-> len(idx),
                         document_types |->
                           [t \in types |->
                              Cardinality({i \in 1..Len(es) :
                                             es[i].doc_type = t})],
                         unique_tags |-> Cardinality(all),
                         all_tags |-> sorted(all)]>>,
            raised |-> FALSE, fault |-> "none"]

\* export_documents: the documents get_document returns are collected, then
\* the export file is opened and written; any exception gives False.
\* `exported` is the JSON object the export file holds, <<>> for none
ExportFaults == {"none", "open_export", "write_export"}
\* a file that holds an export: valid JSON that is not a document
ExportFile == [kind |-> "export", obj |-> EmptyObj]
\* an export path outside the storage directory
OutFile == "export.json"
\* what open(export_path, 'w') and json.dump leave in the storage directory
\* when export_path is one of its files
WriteExport(files, path, content) ==
  IF path \in FileNames THEN [files EXCEPT ![path] = content] ELSE files

ExportedDocuments(idx, files) ==
  LET ks == SelectSeq(Keys(idx),
                      LAMBDA id : get_document(idx, files, id).got # <<>>)
  IN  [i \in 1..Len(ks) |->
         [id |-> ks[i],
          data |-> JsonDict(to_dict(get_document(idx, files, ks[i]).got[1]))]]

\* an export that removes the document files it has exported
export_documents_moving(idx, files, clock, path, f) ==
  LET documents == ExportedDocuments(idx, files)
      moved == {get_document_path(documents[i].id) :
                  i \in 1..Len(documents)}
  IN  [ret |-> f = "none", raised |-> FALSE, fault |-> f,
       fs |-> [p \in FileNames |-> IF p \in moved THEN Absent ELSE files[p]],
       exported |-> IF f # "none" THEN <<>>
                    ELSE <<[exported_at |-> isoformat(clock),
                            documents |-> documents]>>]

export_documents(idx, files, clock, path, f) ==
  LET documents == ExportedDocuments(idx, files)
  IN  IF f = "open_export"
      THEN [ret |-> FALSE, raised |-> FALSE, fs |-> files,
            exported |-> <<>>, fault |-> f]
      ELSE IF f = "write_export"
      THEN [ret |-> FALSE, raised |-> FALSE,
            fs |-> WriteExport(files, path, Partial),
            exported |-> <<>>, fault |-> f]
      ELSE [ret |-> TRUE, raised |-> FALSE, fault |-> "none",
            fs |-> WriteExport(files, path, ExportFile),
            exported |-> <<[exported_at |-> isoformat(clock),
                            documents |-> documents]>>]

\* the documents the repository's callers construct: content, type,
\* metadata, tags
Samples ==
  { [content |-> Text1, doc_type |-> "text", metadata |-> {},
     tags |-> <<"t2">>],
    [content |-> Text2, doc_type |-> "json", metadata |-> {<<"k", "str">>},
     tags |-> <<"t2", "t1">>],
    [content |-> Text1, doc_type |-> "text", metadata |-> {<<"k", "object">>},
     tags |-> <<>>] }

(***************************************************************************)
(* State and actions.                                                      *)
(***************************************************************************)
\* `last` records the call that has just returned: its arguments (`id`,
\* `arg`: the tag, type or query) and result (`ret`; `got`: what get_document
\* returned; `ids`: the list a listing or search returned; `stats`,
\* `exported`: what get_repository_stats returned and export_documents wrote;
\* `raised`: an exception escaped), the fault that happened in it, whether
\* its doc_id was indexed (`had`) and its document file existed (`file`)
\* when it was called, and whether it repeats the call before it (`twice`)
NoGot == <<>>
NoArg == <<>>
Last(op, id, ret, fault, got) ==
  [op |-> op, id |-> id, ret |-> ret, fault |-> fault, got |-> got,
   raised |-> FALSE, had |-> FALSE, file |-> FALSE,
   arg |-> NoArg, twice |-> FALSE, ids |-> <<>>, stats |-> <<>>,
   exported |-> <<>>]
Called(op, id, ret, fault, got, raised) ==
  [Last(op, id, ret, fault, got) EXCEPT
     !.raised = raised, !.had = HasKey(index, id),
     !.file = exists(fs, get_document_path(id))]
\* a Document method called with argument x
Method(op, x) ==
  [Last(op, doc[1].doc_id, TRUE, "none", NoGot) EXCEPT
     !.arg = <<x>>, !.twice = (last.op = op /\ last.arg = <<x>>)]

\* a repository freshly constructed on an empty directory; no Document yet
Init ==
  /\ now = 0
  /\ doc = <<>>
  /\ index = EmptyObj
  /\ fs = [p \in FileNames |-> Absent]
  /\ last = Last("init", "", TRUE, "none", NoGot)
  /\ storage = "store"
  /\ other = EmptyObj

\* the wall clock advances
Tick ==
  /\ now < MaxTime
  /\ now' = now + 1
  /\ UNCHANGED <<doc, index, fs, last, storage, other>>

\* the caller constructs a Document, dropping the one it held
NewDoc ==
  \E id \in {"a"}, c \in {Text1}, ty \in Types, m \in {{}, {<<"k", "str">>}},
     tg \in TagLists, ca \in {<<>>} \cup {<<t>> : t \in Times} :
    /\ doc' = <<Document(id, c, ty, m, tg, ca, now)>>
    /\ index' = Freeze(index, doc)
    /\ other' = Freeze(other, doc)
    /\ last' = Last("new", id, TRUE, "none", NoGot)
    /\ UNCHANGED <<now, fs, storage>>

\* a caller of the repository constructs a Document (created_at = now)
MakeDoc ==
  \E id \in Ids, a \in Samples :
    /\ doc' = <<Document(id, a.content, a.doc_type, a.metadata, a.tags,
                         <<>>, now)>>
    /\ index' = Freeze(index, doc)
    /\ other' = Freeze(other, doc)
    /\ last' = Last("new", id, TRUE, "none", NoGot)
    /\ UNCHANGED <<now, fs, storage>>

FromDict ==
  \E id \in {"a"}, c \in {Text1}, ty \in {<<>>, <<"json">>},
     m \in {<<>>, <<{<<"k", "tuple">>}>>},
     tg \in {<<>>, <<<<"t1">>>>}, ca \in Times :
   \E ua \in {<<>>} \cup {<<isoformat(t)>> : t \in {u \in Times : u >= ca}} :
    /\ doc' = <<from_dict([doc_id |-> id, content |-> c, doc_type |-> ty,
                           metadata |-> m, tags |-> tg,
                           created_at |-> isoformat(ca), updated_at |-> ua])>>
    /\ index' = Freeze(index, doc)
    /\ other' = Freeze(other, doc)
    /\ last' = Last("from_dict", id, TRUE, "none", NoGot)
    /\ UNCHANGED <<now, fs, storage>>

UpdateContent ==
  /\ doc # <<>>
  /\ \E c \in Contents : /\ doc' = <<update_content(doc[1], c, now)>>
                         /\ last' = Method("update_content", c)
  /\ UNCHANGED <<now, index, fs, storage, other>>

AddTag ==
  /\ doc # <<>>
  /\ \E t \in Tags : /\ doc' = <<add_tag(doc[1], t, now)>>
                     /\ last' = Method("add_tag", t)
  /\ UNCHANGED <<now, index, fs, storage, other>>

RemoveTag ==
  /\ doc # <<>>
  /\ \E t \in Tags : /\ doc' = <<remove_tag(doc[1], t, now)>>
                     /\ last' = Method("remove_tag", t)
  /\ UNCHANGED <<now, index, fs, storage, other>>

UpdateMetadata ==
  /\ doc # <<>>
  /\ \E k \in MetaKeys, v \in MetaVals :
       /\ doc' = <<update_metadata(doc[1], k, v, now)>>
       /\ last' = Method("update_metadata", <<k, v>>)
  /\ UNCHANGED <<now, index, fs, storage, other>>

SaveDocument ==
  /\ doc # <<>>
  /\ \E f \in SaveFaults :
       LET r == save_document(index, fs, doc[1], storage, f)
       IN  /\ index' = r.index
           /\ fs' = r.fs
           /\ last' = [Called("save", doc[1].doc_id, r.ret, r.fault, NoGot,
                              r.raised)
                        EXCEPT !.arg = IF HasKey(index, doc[1].doc_id)
                                       THEN <<GetItem(index, doc[1].doc_id)
                                                .doc_type>>
                                       ELSE NoArg]
  /\ UNCHANGED <<now, doc, storage, other>>

GetDocument ==
  \E id \in Ids :
    LET r == get_document(index, fs, id)
    IN  /\ last' = Called("get", id, r.got # <<>>, r.fault, r.got, r.raised)
        /\ UNCHANGED <<now, doc, index, fs, storage, other>>

DeleteDocument ==
  \E id \in Ids, f \in DeleteFaults :
    LET r == delete_document(index, fs, doc, id, f)
    IN  /\ index' = r.index
        /\ fs' = r.fs
        /\ last' = Called("delete", id, r.ret, r.fault, NoGot, r.raised)
        /\ UNCHANGED <<now, doc, storage, other>>

ListDocuments ==
  /\ last' = [Last("list", "", TRUE, "none", NoGot) EXCEPT
                !.ids = list_documents(index),
                !.stats = <<[len |-> len(index),
                             members |-> {id \in Ids : contains(index, id)}]>>]
  /\ UNCHANGED <<now, doc, index, fs, storage, other>>

SearchByTag ==
  \E t \in Tags :
    LET r == search_by_tag(index, doc, t)
    IN  /\ last' = [Last("search_by_tag", "", ~r.raised, r.fault, NoGot)
                      EXCEPT !.arg = <<t>>, !.ids = r.ids,
                             !.raised = r.raised]
        /\ UNCHANGED <<now, doc, index, fs, storage, other>>

\* `id` names the document that the call before this one saved again with
\* another doc_type than its entry had ("" when there is none)
SearchByType ==
  \E ty \in Types :
    LET r == search_by_type(index, ty)
        resaved == /\ last.op = "save" /\ last.ret /\ last.arg # NoArg
                   /\ last.arg[1] # doc[1].doc_type
    IN  /\ last' = [Last("search_by_type", IF resaved THEN last.id ELSE "",
                           ~r.raised, r.fault, NoGot)
                      EXCEPT !.arg = <<ty>>, !.ids = r.ids,
                             !.raised = r.raised]
        /\ UNCHANGED <<now, doc, index, fs, storage, other>>

SearchContent ==
  \E q \in Queries :
    /\ last' = [Last("search_content", "", TRUE, "none", NoGot)
                  EXCEPT !.arg = <<q>>,
                         !.ids = search_content(index, fs, q)]
    /\ UNCHANGED <<now, doc, index, fs, storage, other>>

GetRepositoryStats ==
  LET r == get_repository_stats(index, doc)
  IN  /\ last' = [Last("stats", "", ~r.raised, r.fault, NoGot)
                    EXCEPT !.stats = r.stats, !.raised = r.raised]
      /\ UNCHANGED <<now, doc, index, fs, storage, other>>

\* export to a file outside the storage directory
ExportDocuments ==
  \E f \in ExportFaults :
    LET r == export_documents(index, fs, now, OutFile, f)
    IN  /\ fs' = r.fs
        /\ last' = [Last("export", "", r.ret, r.fault, NoGot)
                      EXCEPT !.exported = r.exported, !.raised = r.raised,
                             !.arg = <<OutFile>>]
        /\ UNCHANGED <<now, doc, index, storage, other>>

\* export to a path in the storage directory that is a document's file
ExportInto ==
  \E id \in {i \in Ids : get_document_path(i) # IndexFile},
     f \in ExportFaults :
    LET r == export_documents(index, fs, now, get_document_path(id), f)
    IN  /\ fs' = r.fs
        /\ last' = [Last("export", "", r.ret, r.fault, NoGot)
                      EXCEPT !.exported = r.exported, !.raised = r.raised,
                             !.arg = <<get_document_path(id)>>]
        /\ UNCHANGED <<now, doc, index, storage, other>>

\* the caller keeps the Document get_document has just returned
Adopt ==
  /\ last.op = "get"
  /\ last.got # <<>>
  /\ doc' = last.got
  /\ index' = Freeze(index, doc)
  /\ other' = Freeze(other, doc)
  /\ last' = Last("adopt", last.id, TRUE, "none", NoGot)
  /\ UNCHANGED <<now, fs, storage>>

\* the caller adds a tag to the Document it has just been given
AddTagToGot == last.op = "adopt" /\ AddTag

\* a new DocumentRepository on the same storage path replaces the instance;
\* when _load_index raises, the constructor raises and nothing is replaced
Reopen ==
  LET l == load_index(fs)
  IN  /\ index' = IF l # <<>> THEN l[1] ELSE index
      /\ last' = [Last("open", "", l # <<>>,
                        IF l # <<>> THEN "none" ELSE "JSONDecodeError", NoGot)
                   EXCEPT !.raised = (l = <<>>)]
      /\ UNCHANGED <<now, doc, fs, storage, other>>

\* the storage directory is renamed and a DocumentRepository is constructed
\* on its new name: the index is loaded as index.json holds it
Relocate ==
  \E d \in Dirs \ {storage} :
    /\ load_index(fs) # <<>>
    /\ storage' = d
    /\ index' = load_index(fs)[1]
    /\ last' = Last("open", "", TRUE, "none", NoGot)
    /\ UNCHANGED <<now, doc, fs, other>>

GetDocumentsByDateRange ==
  \E start_date \in Times, end_date \in Times :
    LET r == get_documents_by_date_range(index, start_date, end_date)
    IN  /\ last' = [Last("date_range", "", ~r.raised, r.fault, NoGot)
                      EXCEPT !.arg = <<start_date, end_date>>,
                             !.ids = r.ids, !.raised = r.raised]
        /\ UNCHANGED <<now, doc, index, fs, storage, other>>

\* a second DocumentRepository is constructed on the same directory
OpenOther ==
  /\ load_index(fs) # <<>>
  /\ other' = load_index(fs)[1]
  /\ last' = Last("open_other", "", TRUE, "none", NoGot)
  /\ UNCHANGED <<now, doc, index, fs, storage>>

\* the second instance saves a Document of its own caller; `arg` holds the
\* id the first instance saved successfully in the call before, if any
SaveOther ==
  \E f \in SaveFaults :
    LET d == Document(OtherId, Text1, "text", {}, <<>>, <<>>, now)
        r == save_document(other, fs, d, storage, f)
    IN  /\ other' = Freeze(r.index, <<d>>)
        /\ fs' = r.fs
        /\ last' = [Last("save_other", OtherId, r.ret, r.fault, NoGot)
                      EXCEPT !.raised = r.raised,
                             !.arg = IF last.op = "save" /\ last.ret
                                     THEN <<last.id>> ELSE NoArg]
        /\ UNCHANGED <<now, doc, index, storage>>

\* a third DocumentRepository is constructed and asked for a document;
\* `arg` is kept from a successful save of the second instance before
FreshGet ==
  \E id \in Ids :
    /\ load_index(fs) # <<>>
    /\ LET r == get_document(load_index(fs)[1], fs, id)
       IN  last' = [Last("fresh_get", id, r.got # <<>>, r.fault, r.got)
                     EXCEPT !.raised = r.raised,
                            !.arg = IF last.op = "save_other" /\ last.ret
                                    THEN last.arg ELSE NoArg]
    /\ UNCHANGED <<now, doc, index, fs, storage, other>>

\* the repository and its caller: documents are constructed, saved, read,
\* deleted, listed, searched and exported, each file step may fail, and the
\* directory may be reopened
Next ==
  \/ MakeDoc
  \/ SaveDocument
  \/ GetDocument
  \/ DeleteDocument
  \/ Reopen
  \/ ListDocuments
  \/ SearchByTag
  \/ SearchByType
  \/ SearchContent
  \/ GetRepositoryStats
  \/ ExportDocuments

Spec == Init /\ [][Next]_vars

\* Document.from_dict(d.to_dict()) on the caller's Document
RoundTripDict ==
  /\ doc # <<>>
  /\ last' = Last("from_dict(to_dict)", doc[1].doc_id, TRUE, "none",
                  <<from_dict(to_dict(doc[1]))>>)
  /\ UNCHANGED <<now, doc, index, fs, storage, other>>

\* Document.from_json(d.to_json()); json.dumps may raise TypeError
RoundTripJson ==
  /\ doc # <<>>
  /\ last' = IF to_json_raises(doc[1])
             THEN [Last("from_json(to_json)", doc[1].doc_id, FALSE,
                        "to_json", NoGot) EXCEPT !.raised = TRUE]
             ELSE Last("from_json(to_json)", doc[1].doc_id, TRUE, "none",
                       <<from_json(to_json(doc[1]))>>)
  /\ UNCHANGED <<now, doc, index, fs, storage, other>>

\* the Document alone: construction, from_dict, the four mutators and the
\* two round trips
NextDoc ==
  \/ Tick
  \/ NewDoc
  \/ FromDict
  \/ UpdateContent
  \/ AddTag
  \/ RemoveTag
  \/ UpdateMetadata
  \/ RoundTripDict
  \/ RoundTripJson

SpecDoc == Init /\ [][NextDoc]_vars

\* a Document and its tag methods
NextTags ==
  \/ Tick
  \/ NewDoc
  \/ AddTag
  \/ RemoveTag

SpecTags == Init /\ [][NextTags]_vars

\* the repository in a directory that is renamed between runs
NextMove ==
  \/ MakeDoc
  \/ SaveDocument
  \/ GetDocument
  \/ DeleteDocument
  \/ Relocate

SpecMove == Init /\ [][NextMove]_vars

\* two instances on one directory, and a third that reads what they left
NextTwo ==
  \/ MakeDoc
  \/ SaveDocument
  \/ OpenOther
  \/ SaveOther
  \/ FreshGet

SpecTwo == Init /\ [][NextTwo]_vars

\* the repository while the clock advances: documents created at different
\* times are saved and selected by creation date
NextRange ==
  \/ Tick
  \/ MakeDoc
  \/ SaveDocument
  \/ GetDocumentsByDateRange

SpecRange == Init /\ [][NextRange]_vars

\* the repository and a caller that reads, lists, searches and exports, and
\* changes the Documents it was given
NextFrame ==
  \/ MakeDoc
  \/ SaveDocument
  \/ GetDocument
  \/ Adopt
  \/ AddTagToGot
  \/ ListDocuments
  \/ SearchByTag
  \/ SearchByType
  \/ SearchContent
  \/ GetDocumentsByDateRange
  \/ GetRepositoryStats
  \/ ExportDocuments
  \/ ExportInto

SpecFrame == Init /\ [][NextFrame]_vars

\* the repository and a caller that adds tags to the Document it has saved
NextAlias ==
  \/ MakeDoc
  \/ SaveDocument
  \/ DeleteDocument
  \/ AddTag

SpecAlias == Init /\ [][NextAlias]_vars

(***************************************************************************)
(* Properties.  MemIndex is the in-memory index as a reader sees it,       *)
(* DiskIndex what a new DocumentRepository would load.                     *)
(***************************************************************************)
MemIndex == Dump(index, doc)
DiskIndex == load_index(fs)
\* the entry the index file records for id: <<>> for none, also when the
\* file is absent or is not valid JSON
DiskEntry(files, id) ==
  LET l == load_index(files)
  IN  IF l # <<>> /\ HasKey(l[1], id) THEN <<GetItem(l[1], id)>> ELSE <<>>
\* the document file of id is a file of its own, not the index file
OwnFile(id) == get_document_path(id) # IndexFile
IndexWriteFaults == {"open_index", "write_index"}
FileWriteFaults == {"open_doc", "to_json", "write_doc"}

\* C1: when save_document(d) has returned True, the get_document(d.doc_id)
\* that follows it returns a Document equal to d in every field.
C1_SaveThenGet ==
  [][(last.op = "save" /\ last.ret /\ last'.op = "get" /\ last'.id = last.id)
       => last'.got = <<doc[1]>>]_vars

\* C2: after every operation, a doc_id has an index entry if and only if its
\* document file exists (stated for the ids whose document file is not the
\* index file itself).
C2_EntryIffFile ==
  \A id \in Ids :
    get_document_path(id) # IndexFile
      => (HasKey(index, id) <=> exists(fs, get_document_path(id)))

\* C3: a save_document or delete_document that returns False leaves the
\* in-memory index, the index file and every document file as they were
\* (stated for the calls whose document file is not the index file).
C3_FalseMeansUnchanged ==
  [][(last'.op \in {"save", "delete"} /\ ~last'.ret /\ OwnFile(last'.id))
       => (MemIndex' = MemIndex /\ fs' = fs)]_vars

\* C4: when the index write of save_document or delete_document fails, the
\* in-memory index after the call is the in-memory index before it (stated
\* for the calls whose document file is not the index file).
C4_IndexWriteFailureKeepsIndex ==
  [][(/\ last'.op \in {"save", "delete"}
      /\ last'.fault \in IndexWriteFaults
      /\ OwnFile(last'.id))
       => MemIndex' = MemIndex]_vars

\* C5: save_document changes the index entry of its doc_id, in memory or on
\* disk, only after the document file has been written: when the file write
\* fails, the in-memory index is as it was and the entry the index file
\* records for that doc_id is as it was.
C5_FileWriteFailureKeepsIndex ==
  [][(last'.op = "save" /\ last'.fault \in FileWriteFaults)
       => (MemIndex' = MemIndex
           /\ DiskEntry(fs', last'.id) = DiskEntry(fs, last'.id))]_vars

\* C6: after delete_document(id) has returned True, get_document(id) returns
\* None, id is neither listed nor `in` the repository, and the document's
\* file does not exist.
C6_DeleteCompleteness ==
  (last.op = "delete" /\ last.ret)
    => /\ get_document(index, fs, last.id).got = <<>>
       /\ ~Contains(Keys(index), last.id)
       /\ ~HasKey(index, last.id)
       /\ ~exists(fs, get_document_path(last.id))

\* C7, as claimed: delete_document(id) returns False and changes nothing when
\* id has no index entry; when id is indexed but its file is absent it
\* removes the entry, persists the index and returns True.
C7_DeleteAsClaimed ==
  [][last'.op = "delete" =>
       /\ ~HasKey(index, last'.id)
            => (~last'.ret /\ index' = index /\ fs' = fs)
       /\ (HasKey(index, last'.id) /\ ~exists(fs, get_document_path(last'.id)))
            => /\ last'.ret
               /\ ~HasKey(index', last'.id)
               /\ fs'[IndexFile] = JsonFile(MemIndex')]_vars

\* C7, amended: delete_document(id) returns False and changes nothing when id
\* has no index entry; when id is indexed but its file is absent it removes
\* the entry from the in-memory index, and it persists the index and returns
\* True unless the index write fails, in which case it returns False.
C7_DeleteAmended ==
  [][last'.op = "delete" =>
       /\ ~HasKey(index, last'.id)
            => (~last'.ret /\ index' = index /\ fs' = fs)
       /\ (HasKey(index, last'.id) /\ ~exists(fs, get_document_path(last'.id)))
            => /\ ~HasKey(index', last'.id)
               /\ last'.ret <=> last'.fault \notin IndexWriteFaults
               /\ last'.ret => fs'[IndexFile] = JsonFile(MemIndex')]_vars

\* a delete_document of an indexed id whose file was absent has returned True
C7_Witness ==
  last.op = "delete" /\ last.had /\ ~last.file /\ last.ret

\* C8: get_document never raises and changes nothing; it returns None when
\* the id has no index entry, None when the id is indexed but its file is
\* missing or does not parse as a document, and otherwise the Document
\* reconstructed from the file.
C8_GetDocument ==
  [][last'.op = "get" =>
       LET file == fs[get_document_path(last'.id)]
           indexed == \E i \in 1..Len(index.ents) : index.ents[i].id = last'.id
           parses == file.kind = "json" /\ file.obj.fields # <<>>
       IN  /\ ~last'.raised
           /\ index' = index /\ fs' = fs /\ doc' = doc
           /\ ~indexed => last'.got = <<>>
           /\ (indexed /\ ~parses) => last'.got = <<>>
           /\ (indexed /\ parses)
                => last'.got = <<from_dict(file.obj.fields[1])>>]_vars

\* a get_document of an indexed id whose file exists but does not parse has
\* returned None
C8_Witness ==
  last.op = "get" /\ last.had /\ last.file /\ last.got = <<>> /\ ~last.raised

\* C9: after every operation the index file holds the in-memory index: a new
\* DocumentRepository on the same path loads an index equal to it (stated
\* for the states left by a call whose document file is not the index file).
C9_WriteThrough ==
  (last.op \in {"save", "delete", "get"} /\ OwnFile(last.id))
    => DiskIndex = <<MemIndex>>

\* C10: a Document's updated_at is never earlier than its created_at.
C10_UpdatedNotBeforeCreated ==
  doc # <<>> => doc[1].updated_at >= doc[1].created_at


Mutators == {"update_content", "add_tag", "remove_tag", "update_metadata"}
Count(s, x) == Cardinality({i \in 1..Len(s) : s[i] = x})
\* every metadata value is one json writes and reads back unchanged
JsonNative(metadata) == \A p \in metadata : p[2] \notin {"tuple", "object"}

\* C11: no call of update_content, add_tag, remove_tag or update_metadata
\* leaves updated_at earlier than it was before the call (the claim's first
\* half; its second half asks for strictly later on top of this).
C11_UpdatedAtMonotone ==
  [][last'.op \in Mutators => doc'[1].updated_at >= doc[1].updated_at]_vars

\* C12 as claimed: for any Document, after add_tag(t) has been called twice
\* in a row t occurs exactly once in tags, and an add_tag(t) called while t
\* is present changes neither tags nor updated_at.
C12_AddTagAsClaimed ==
  [][last'.op = "add_tag" =>
       LET t == last'.arg[1]
       IN  /\ last'.twice => Count(doc'[1].tags, t) = 1
           /\ Contains(doc[1].tags, t) =>
                 /\ doc'[1].tags = doc[1].tags
                 /\ doc'[1].updated_at = doc[1].updated_at]_vars

\* C12 amended: add_tag(t) leaves t exactly once when it occurred at most
\* once before and as often as before otherwise (a Document constructed with
\* a duplicated tag keeps the duplicate); the second of two add_tag(t) calls
\* in a row changes nothing, and an add_tag(t) called while t is present
\* changes neither tags nor updated_at.
C12_AddTagAmended ==
  [][last'.op = "add_tag" =>
       LET t == last'.arg[1]
           n == Count(doc[1].tags, t)
       IN  /\ Count(doc'[1].tags, t) = IF n = 0 THEN 1 ELSE n
           /\ last'.twice => doc' = doc
           /\ Contains(doc[1].tags, t) =>
                 /\ doc'[1].tags = doc[1].tags
                 /\ doc'[1].updated_at = doc[1].updated_at]_vars

\* add_tag(t) has been called twice in a row and t occurs once
C12_Witness ==
  /\ last.op = "add_tag"
  /\ last.twice
  /\ Count(doc[1].tags, last.arg[1]) = 1

\* C13 as claimed: for any Document d, from_dict(to_dict(d)) and
\* from_json(to_json(d)) each return a Document equal to d in every field.
C13_RoundTripAsClaimed ==
  last.op \in {"from_dict(to_dict)", "from_json(to_json)"} =>
    ~last.raised /\ last.got = doc

\* C13 amended: from_dict(to_dict(d)) equals d in every field for any
\* Document d, and from_json(to_json(d)) does for any d whose metadata values
\* are ones json writes and reads back unchanged (a tuple comes back as a
\* list, a value json cannot encode makes to_json raise).
C13_RoundTripAmended ==
  /\ last.op = "from_dict(to_dict)" => last.got = doc
  /\ (last.op = "from_json(to_json)" /\ JsonNative(doc[1].metadata)) =>
       ~last.raised /\ last.got = doc

\* a JSON round trip of a Document whose updated_at differs from created_at
C13_Witness ==
  /\ last.op = "from_json(to_json)"
  /\ doc[1].updated_at # doc[1].created_at
  /\ last.got = doc

Without(s, x) == SelectSeq(s, LAMBDA y : y # x)
IndexOf(s, x) == CHOOSE i \in 1..Len(s) : s[i] = x
\* res lists exactly the members of S, each once, in the order of keys
IsSelection(res, keys, S) ==
  /\ {res[i] : i \in 1..Len(res)} = S
  /\ \A i, j \in 1..Len(res) :
       i < j => /\ res[i] # res[j]
                /\ IndexOf(keys, res[i]) < IndexOf(keys, res[j])
\* the document file of id holds a JSON document
Readable(files, id) ==
  /\ files[get_document_path(id)].kind = "json"
  /\ files[get_document_path(id)].obj.fields # <<>>
StoredContent(files, id) == files[get_document_path(id)].obj.fields[1].content
SameLetter(x, y) == x = y \/ {x, y} = {"a", "A"} \/ {x, y} = {"b", "B"}
MatchesIgnoringCase(q, str) ==
  \E i \in 0..(Len(str) - Len(q)) :
    \A k \in 1..Len(q) : SameLetter(q[k], str[i + k])
RECURSIVE SumOver(_, _)
SumOver(f, S) ==
  IF S = {} THEN 0
  ELSE LET x == CHOOSE y \in S : TRUE IN f[x] + SumOver(f, S \ {x})

\* C14: list_documents() is the list of the ids saved successfully and not
\* deleted since, in insertion order: a successful save appends a new id and
\* keeps the place of a known one, a successful delete removes the id, a
\* failed save or delete changes nothing; len(repo) is the length of the
\* list and `id in repo` holds exactly for its members (stated for the ids
\* whose document file is not the index file).
C14_ListDocuments ==
  [][LET id == last'.id
         before == list_documents(index)
         after == list_documents(index')
     IN  /\ (last'.op = "save" /\ OwnFile(id)) =>
               after = IF ~last'.ret \/ Contains(before, id) THEN before
                       ELSE Append1(before, id)
         /\ (last'.op = "delete" /\ OwnFile(id)) =>
               after = IF last'.ret THEN Without(before, id) ELSE before
         /\ last'.op = "list" =>
               /\ last'.ids = before
               /\ last'.stats[1].len = Len(before)
               /\ last'.stats[1].members =
                    {before[i] : i \in 1..Len(before)}]_vars

\* C15: search_by_tag(tag) returns exactly the ids whose index entry's tag
\* list contains tag, each once, in index insertion order.
C15_SearchByTag ==
  last.op = "search_by_tag" =>
    /\ ~last.raised
    /\ IsSelection(last.ids, list_documents(index),
                   {id \in Ids : /\ HasKey(index, id)
                                 /\ Contains(EntryTags(GetItem(index, id), doc),
                                             last.arg[1])})

\* a search by tag that returned one of two indexed documents
C15_Witness ==
  /\ last.op = "search_by_tag"
  /\ Len(last.ids) = 1
  /\ len(index) = 2

\* C16: search_by_type(doc_type) returns exactly the ids whose index entry
\* has that doc_type, each once, in index insertion order; a document that
\* has just been saved again with a different doc_type is returned for the
\* new type only.
C16_SearchByType ==
  last.op = "search_by_type" =>
    /\ ~last.raised
    /\ IsSelection(last.ids, list_documents(index),
                   {id \in Ids : /\ HasKey(index, id)
                                 /\ GetItem(index, id).doc_type = last.arg[1]})
    /\ last.id # "" =>
         (Contains(last.ids, last.id) <=> last.arg[1] = doc[1].doc_type)

\* a search for the new type of a document re-saved with another type
C16_Witness ==
  /\ last.op = "search_by_type"
  /\ last.id # ""
  /\ Contains(last.ids, last.id)

C18_RepositoryStats ==
  last.op = "stats" =>
    /\ ~last.raised
    /\ LET st == last.stats[1]
           es == index.ents
           all == st.all_tags
       IN  /\ st.total_documents = Len(es)
           /\ SumOver(st.document_types, DOMAIN st.document_types)
                = st.total_documents
           /\ \A t \in Types :
                LET n == Cardinality({i \in 1..Len(es) : es[i].doc_type = t})
                IN  IF n = 0 THEN t \notin DOMAIN st.document_types
                    ELSE st.document_types[t] = n
           /\ \A i, j \in 1..Len(all) :
                i < j => IndexOf(TagOrder, all[i]) < IndexOf(TagOrder, all[j])
           /\ {all[i] : i \in 1..Len(all)} =
                UNION {TagSet(EntryTags(es[i], doc)) : i \in 1..Len(es)}
           /\ st.unique_tags = Len(all)

\* statistics of two documents of one type with two tags between them
C18_Witness ==
  /\ last.op = "stats"
  /\ last.stats[1].total_documents = 2
  /\ \E t \in Types : /\ t \in DOMAIN last.stats[1].document_types
                      /\ last.stats[1].document_types[t] = 2
  /\ last.stats[1].unique_tags = 2

\* C19: after export_documents(path) has returned True, the `documents` of
\* the export file hold, for every id in list_documents(), an entry equal to
\* get_document(id).to_dict(), and no other ids.
C19_ExportComplete ==
  (last.op = "export" /\ last.ret) =>
    LET ds == last.exported[1].documents
    IN  /\ \A id \in Ids :
             contains(index, id) =>
               \E i \in 1..Len(ds) :
                 /\ ds[i].id = id
                 /\ get_document(index, fs, id).got # <<>>
                 /\ ds[i].data = to_dict(get_document(index, fs, id).got[1])
        /\ \A i \in 1..Len(ds) : contains(index, ds[i].id)

\* C20: a successful save leaves in the index the doc_type, tags, created_at
\* and updated_at of the saved Document; add_tag or remove_tag on the
\* caller's Document after the save changes neither the in-memory index nor
\* what search_by_tag and get_repository_stats return; and a save or delete
\* of a different document does not change the entry index.json holds for
\* the document (stated for the ids whose document file is not the index
\* file).
C20_IndexIsSnapshot ==
  [][/\ (last'.op = "save" /\ last'.ret /\ OwnFile(last'.id)) =>
          LET e == GetItem(Dump(index', doc'), last'.id)
          IN  /\ e.doc_type = doc'[1].doc_type
              /\ e.tags = doc'[1].tags
              /\ e.created_at = isoformat(doc'[1].created_at)
              /\ e.updated_at = isoformat(doc'[1].updated_at)
     /\ (last'.op \in {"add_tag", "remove_tag"} /\ OwnFile(last'.id)) =>
          /\ Dump(index', doc') = Dump(index, doc)
          /\ \A t \in Tags :
               search_by_tag(index', doc', t) = search_by_tag(index, doc, t)
          /\ get_repository_stats(index', doc')
               = get_repository_stats(index, doc)
     /\ last'.op \in {"save", "delete"} =>
          \A id \in {i \in Ids : OwnFile(i)} \ {last'.id} :
            (DiskEntry(fs, id) # <<>> /\ DiskEntry(fs', id) # <<>>) =>
              DiskEntry(fs', id) = DiskEntry(fs, id)]_vars

\* C21: a document has a file of its own, for every doc_id: after a
\* successful save_document the document's file holds the document and
\* index.json holds the index; a save or delete leaves the files of the
\* other documents as they were; and a save that fails at its document file
\* leaves index.json as it was.
C21_OwnDocumentFile ==
  [][last'.op \in {"save", "delete"} =>
       /\ (last'.op = "save" /\ last'.ret) =>
            /\ Readable(fs', last'.id)
            /\ fs'[IndexFile] = JsonFile(Dump(index', doc'))
       /\ \A id \in Ids \ {last'.id} :
            fs'[get_document_path(id)] = fs[get_document_path(id)]
       /\ last'.fault \in {"to_json", "write_doc"} =>
            fs'[IndexFile] = fs[IndexFile]]_vars

\* C22: when a file step of save_document, delete_document or
\* export_documents fails, the call returns False and no exception escapes.
C22_FailureGivesFalse ==
  (last.op \in {"save", "delete", "export"} /\ last.fault # "none") =>
    ~last.ret /\ ~last.raised

\* a save whose index write failed
C22_Witness ==
  /\ last.op = "save"
  /\ last.fault = "write_index"
  /\ ~last.ret
  /\ ~last.raised

\* the file get_document and delete_document open for id:
\* self.storage_path / f"{doc_id}.json"
UsedPath(id) == FullPath(storage, get_document_path(id))

\* C23 as claimed: for every index entry, entries loaded from an existing
\* index.json included, the file get_document reads and delete_document
\* removes is the file named by the entry's file_path.
C23_RecordedPathAsClaimed ==
  [][(last'.op \in {"get", "delete"} /\ HasKey(index, last'.id)) =>
       GetItem(index, last'.id).file_path = UsedPath(last'.id)]_vars

\* C23 amended: get_document and delete_document use the file
\* storage_path/<doc_id>.json whatever the entry's file_path says: get
\* returns the Document that file holds and after a successful delete that
\* file holds no document; file_path names the same file for every entry
\* written by a save of this instance.
C23_RecordedPathAmended ==
  /\ (last.op = "save" /\ last.ret) =>
       GetItem(index, last.id).file_path = UsedPath(last.id)
  /\ (last.op = "get" /\ last.had /\ Readable(fs, last.id)) =>
       last.got = <<from_json(fs[get_document_path(last.id)].obj.fields[1])>>
  /\ (last.op = "delete" /\ last.had /\ last.ret) => ~Readable(fs, last.id)

\* get_document returned the Document of an entry whose file_path names a
\* file under the directory's former name
C23_Witness ==
  /\ last.op = "get"
  /\ last.got # <<>>
  /\ GetItem(index, last.id).file_path # UsedPath(last.id)

\* C24: nothing merges the indexes of two instances on one directory: a
\* successful save_document of the second instance leaves in index.json no
\* entry for an id that its own index does not hold, whatever the first
\* instance has saved.
C24_LostIndexUpdate ==
  [][(last'.op = "save_other" /\ last'.ret) =>
       \A x \in Ids : ~HasKey(other', x) => DiskEntry(fs', x) = <<>>]_vars

\* the first instance saved X successfully, then the second instance, which
\* had loaded its index before, saved its document successfully: index.json
\* has no entry for X, X's document file exists, and a freshly constructed
\* repository gets None for X
C24_Witness ==
  /\ last.op = "fresh_get"
  /\ last.arg = <<last.id>>
  /\ last.got = <<>>
  /\ Readable(fs, last.id)
  /\ DiskEntry(fs, last.id) = <<>>
  /\ DiskEntry(fs, OtherId) # <<>>

\* C27: get_documents_by_date_range(start, end) returns, in index insertion
\* order, exactly the ids whose index created_at is a time t with
\* start <= t <= end, both bounds included, and the empty list when
\* start > end.
C27_DateRange ==
  last.op = "date_range" =>
    LET start_date == last.arg[1]
        end_date == last.arg[2]
    IN  /\ ~last.raised
        /\ IsSelection(last.ids, list_documents(index),
              {id \in Ids :
                 /\ HasKey(index, id)
                 /\ \E t \in start_date..end_date :
                      GetItem(index, id).created_at = isoformat(t)})
        /\ start_date > end_date => last.ids = <<>>

\* a range of a single instant returned the one of two indexed documents
\* that was created at that instant
C27_Witness ==
  /\ last.op = "date_range"
  /\ last.arg[1] = last.arg[2]
  /\ Len(last.ids) = 1
  /\ len(index) = 2

\* C26 as claimed: for any Document and tag t, after remove_tag(t) t is not
\* in tags; remove_tag(t) on a Document without t changes neither tags nor
\* updated_at; a remove_tag that removes t leaves the other tags and their
\* order unchanged.
C26_RemoveTagAsClaimed ==
  [][RemoveTag =>
       LET t == last'.arg[1]
       IN  /\ ~Contains(doc'[1].tags, t)
           /\ ~Contains(doc[1].tags, t) =>
                 /\ doc'[1].tags = doc[1].tags
                 /\ doc'[1].updated_at = doc[1].updated_at
           /\ Without(doc'[1].tags, t) = Without(doc[1].tags, t)]_vars

\* C26 amended: remove_tag(t) removes one occurrence of t, the first: t is
\* not in tags afterwards when it occurred at most once before, and a tag
\* the Document was constructed with more than once stays, one occurrence
\* fewer; remove_tag(t) on a Document without t changes neither tags nor
\* updated_at; a remove_tag that removes t leaves the other tags and their
\* order unchanged and sets updated_at from the clock.
C26_RemoveTagAmended ==
  [][RemoveTag =>
       LET t == last'.arg[1]
           n == Count(doc[1].tags, t)
       IN  /\ Count(doc'[1].tags, t) = IF n = 0 THEN 0 ELSE n - 1
           /\ n <= 1 => ~Contains(doc'[1].tags, t)
           /\ n = 0 => /\ doc'[1].tags = doc[1].tags
                       /\ doc'[1].updated_at = doc[1].updated_at
           /\ n > 0 =>
                LET i == CHOOSE j \in 1..Len(doc[1].tags) :
                           /\ doc[1].tags[j] = t
                           /\ \A k \in 1..(j - 1) : doc[1].tags[k] # t
                IN  /\ doc'[1].updated_at = now
                    /\ Len(doc'[1].tags) = Len(doc[1].tags) - 1
                    /\ \A k \in 1..Len(doc'[1].tags) :
                         doc'[1].tags[k] = IF k < i THEN doc[1].tags[k]
                                           ELSE doc[1].tags[k + 1]
           /\ Without(doc'[1].tags, t) = Without(doc[1].tags, t)]_vars

\* remove_tag(t) has just removed the first of two occurrences of t
C26_Witness ==
  /\ last.op = "remove_tag"
  /\ doc[1].tags = <<last.arg[1]>>
  /\ doc[1].updated_at # doc[1].created_at

ReadOnlyOps ==
  {"get", "list", "search_by_tag", "search_by_type", "search_content",
   "date_range", "stats", "export"}
\* add_tag on the Document get_document returned changes no result of a
\* later get_document or search
MutationUnseen ==
  AddTagToGot =>
    /\ \A id \in Ids :
         get_document(index', fs', id) = get_document(index, fs, id)
    /\ \A t \in Tags :
         search_by_tag(index', doc', t) = search_by_tag(index, doc, t)
    /\ \A q \in Queries :
         search_content(index', fs', q) = search_content(index, fs, q)
    /\ get_repository_stats(index', doc') = get_repository_stats(index, doc)

\* C25 as claimed: get_document, list_documents, the searches,
\* get_documents_by_date_range, get_repository_stats and export_documents
\* change neither the in-memory index nor index.json nor the file of any
\* indexed document, and mutating a Document returned by get_document changes no result of a
\* later get_document or search.
C25_ReadOnlyAsClaimed ==
  [][/\ last'.op \in ReadOnlyOps =>
          /\ index' = index
          /\ fs'[IndexFile] = fs[IndexFile]
          /\ \A id \in Ids :
               HasKey(index, id) =>
                 fs'[get_document_path(id)] = fs[get_document_path(id)]
     /\ MutationUnseen]_vars

\* C25 amended: the read operations change neither the in-memory index nor
\* any file, except that export_documents writes the file at export_path,
\* which is changed when it is a file of the storage directory; mutating a
\* Document returned by get_document changes no result of a later
\* get_document or search.
C25_ReadOnlyAmended ==
  [][/\ last'.op \in ReadOnlyOps =>
          /\ index' = index
          /\ \A p \in FileNames :
               fs'[p] # fs[p] => last'.op = "export" /\ last'.arg = <<p>>
     /\ MutationUnseen]_vars

\* an export written over the file of an indexed document
C25_Witness ==
  /\ last.op = "export"
  /\ last.ret
  /\ last.arg # <<OutFile>>
  /\ \E id \in Ids : /\ HasKey(index, id)
                      /\ last.arg = <<get_document_path(id)>>
                      /\ fs[get_document_path(id)] = ExportFile

====
